---------------------------- MODULE Spec2Model ----------------------------
(***************************************************************************)
(* A model of the screenshot-area controller and the capture pipeline of   *)
(* the Capturer class (src/unnamed/part_000) and of its wiring in main     *)
(* (src/src/main.ts).                                                      *)
(*                                                                         *)
(* Lengths are fixed-point numbers: a value v of the model stands for      *)
(* v / Scale CSS pixels.  The only operation of the code that leaves the   *)
(* integers is the halving in updateScreenshotAreaIndicator, so with at    *)
(* most MaxUpdates calls of it after the constructor's own call, every     *)
(* length is a multiple of 1 / Scale and the arithmetic below is exact.    *)
(***************************************************************************)
EXTENDS Integers, Sequences, FiniteSets, TLC

\* ------------------------------------------------------------------ bounds
\* calls of updateScreenshotAreaIndicator after construction
MaxUpdates == 2
\* handler runs in one behaviour
MaxSteps == 6

\* calls of screenshot() in one behaviour
MaxCaptures == 2
\* input handler runs in a behaviour that also takes screenshots
MaxInputs == 1
\* fetches of the latest-upload endpoint in one behaviour
MaxPolls == 4

\* ------------------------------------------------------- program constants
EDGE_THRESHOLD == 3
MIN_SCREENSHOT_SIZE == 64
DEFAULT_SCREENSHOT_SIZE == 512

Scale == 2 ^ (MaxUpdates + 1)
Px(n) == n * Scale
Half(v) == v \div 2
Max(a, b) == IF a >= b THEN a ELSE b
Min(a, b) == IF a <= b THEN a ELSE b
Abs(a) == IF a >= 0 THEN a ELSE -a
MinSize == Px(MIN_SCREENSHOT_SIZE)

\* ------------------------------------------------------------------ inputs
\* canvas.clientWidth x canvas.clientHeight, in pixels
InitialViewports == {<<800, 600>>}
Viewports == {<<800, 600>>, <<400, 300>>}
\* the constructor's defaultWidth x defaultHeight
DefaultSizes == {<<DEFAULT_SCREENSHOT_SIZE, DEFAULT_SCREENSHOT_SIZE>>}
\* viewports and default sizes the constructor is run with when it is looked at alone
ConstructViewports == {<<800, 600>>, <<801, 601>>, <<400, 300>>, <<1920, 1080>>}
ConstructSizes == {<<512, 512>>, <<300, 200>>, <<64, 64>>, <<1024, 768>>}
\* arguments of setScreenshotSize
SetSizeArgs == {<<32, 700>>, <<300, 200>>, <<512, 512>>}
\* arguments of setScreenshotSize while screenshots are taken
CaptureSetSizeArgs == {<<300, 200>>}
\* pointer deltas (dx, dy) of a drag or resize, measured from the press point
Deltas == {<<-600, -600>>, <<-200, 0>>, <<0, 0>>, <<0, 100>>, <<1, 1>>, <<100, -200>>,
           <<1000, 1000>>}
\* top-left corner of the canvas in client coordinates
CanvasOrigins == {<<8, 40>>}

\* what events.invoke('bgClr') returns: r, g, b in halves (2 is 1.0)
BgColors == {[r |-> 2, g |-> 2, b |-> 2]}
\* what the readback finds in the frame: the leading RGBA pixels of the buffer
PixelBuffers == {<<200, 100, 50, 128,  0, 0, 0, 0,  200, 100, 50, 128,  10, 20, 30, 255>>}
\* the inputs of the blending loop taken alone: backgrounds black and white, and
\* frames of two RGBA pixels with alpha 0, 1, 127, 128, 254 and 255
CompositeBgColors == {[r |-> 0, g |-> 0, b |-> 0], [r |-> 2, g |-> 2, b |-> 2],
                      [r |-> 2, g |-> 0, b |-> 2]}
CompositePixels == {<<200, 100, 50, 128>>, <<9, 8, 7, 0>>, <<10, 20, 30, 255>>,
                    <<255, 0, 128, 1>>, <<0, 255, 3, 254>>, <<1, 2, 253, 127>>}
CompositeFrames == {p \o q : p \in CompositePixels, q \in CompositePixels}
Captures == 1 .. MaxCaptures

ResizeModes == {"NONE", "TOP_LEFT", "TOP_RIGHT", "BOTTOM_LEFT", "BOTTOM_RIGHT",
                "LEFT", "RIGHT", "TOP", "BOTTOM"}
ModifyModes == {"NORMAL", "CTRL", "CTRL_HOVER", "MODIFYING"}

VARIABLES
    clientWidth, clientHeight,      \* canvas.clientWidth / clientHeight
    canvasRect,                     \* canvas.getBoundingClientRect(): left, top
    screenshotWidth, screenshotHeight,
    style,                          \* screenshotAreaIndicator.style: left, top, width, height
    isDragging, isResizing, resizeMode,
    startX, startY, startWidth, startHeight, startLeft, startTop,
    defaultScreenshotWidth, defaultScreenshotHeight, defaultLeft, defaultTop,
    modifyMode, isHovering, isCtrlPressed, mouseX, mouseY,
    pointerEvents,                  \* screenshotAreaIndicator.style.pointerEvents
    cursor,                         \* screenshotAreaIndicator.style.cursor
    resetDisplay,                   \* resetButton.style.display
    onReset,                        \* whether an onReset callback is installed
    resetCalls,                     \* calls of the onReset callback
    updates, steps,                 \* bounded counters of the model
    lastOp,                         \* the handler that ran last
    hasServer,                      \* main: the 'server' URL parameter is present
    bgClr,                          \* the scene's background colour
    frame,                          \* the leading RGBA pixels of the render target
    renderer,                       \* scene.camera / scene.gizmoLayer / scene.forceRender
    cap,                            \* the calls of screenshot(), by order of call
    nCaptures,                      \* calls of screenshot() so far
    poll,                           \* main: the latest-upload polling loop
    upload                          \* what the server's /api/latest-upload holds

regionVars == <<clientWidth, clientHeight, canvasRect, screenshotWidth, screenshotHeight,
                style, isDragging, isResizing, resizeMode,
                startX, startY, startWidth, startHeight, startLeft, startTop,
                defaultScreenshotWidth, defaultScreenshotHeight, defaultLeft, defaultTop,
                modifyMode, isHovering, isCtrlPressed, mouseX, mouseY,
                pointerEvents, cursor, resetDisplay, onReset, resetCalls, updates, steps,
                lastOp>>

captureVars == <<hasServer, bgClr, frame, renderer, cap, nCaptures, poll, upload>>

vars == <<regionVars, captureVars>>

\* ------------------------------------------------------------ pure helpers
isModifying == isDragging \/ isResizing

\* screenshotAreaIndicator.getBoundingClientRect(): the indicator is absolutely
\* positioned in the canvas container, whose origin is the canvas's.
IndicatorRect ==
    [left   |-> canvasRect.left + style.left,
     top    |-> canvasRect.top + style.top,
     right  |-> canvasRect.left + style.left + style.width,
     bottom |-> canvasRect.top + style.top + style.height]

ModifyModeOf(ctrl, modifying, hovering) ==
    IF ctrl
    THEN IF modifying THEN "MODIFYING"
         ELSE IF hovering THEN "CTRL_HOVER"
         ELSE "CTRL"
    ELSE "NORMAL"

PointerEventsOf(mode) == IF mode = "NORMAL" THEN "none" ELSE "auto"

\* a hit test that tries the edges before the corners
HitTestEdgesFirst(mx, my, rect) ==
    LET edgeThreshold == Px(EDGE_THRESHOLD)
        isNearLeft   == mx < rect.left + edgeThreshold
        isNearRight  == mx > rect.right - edgeThreshold
        isNearTop    == my < rect.top + edgeThreshold
        isNearBottom == my > rect.bottom - edgeThreshold
    IN  IF isNearLeft THEN "LEFT"
        ELSE IF isNearRight THEN "RIGHT"
        ELSE IF isNearTop THEN "TOP"
        ELSE IF isNearBottom THEN "BOTTOM"
        ELSE IF isNearLeft /\ isNearTop THEN "TOP_LEFT"
        ELSE IF isNearRight /\ isNearTop THEN "TOP_RIGHT"
        ELSE IF isNearLeft /\ isNearBottom THEN "BOTTOM_LEFT"
        ELSE IF isNearRight /\ isNearBottom THEN "BOTTOM_RIGHT"
        ELSE "NONE"

\* the edge detection of updateCursor
HitTest(mx, my, rect) ==
    LET edgeThreshold == Px(EDGE_THRESHOLD)
        isNearLeft   == mx < rect.left + edgeThreshold
        isNearRight  == mx > rect.right - edgeThreshold
        isNearTop    == my < rect.top + edgeThreshold
        isNearBottom == my > rect.bottom - edgeThreshold
    IN  IF isNearLeft /\ isNearTop THEN "TOP_LEFT"
        ELSE IF isNearRight /\ isNearTop THEN "TOP_RIGHT"
        ELSE IF isNearLeft /\ isNearBottom THEN "BOTTOM_LEFT"
        ELSE IF isNearRight /\ isNearBottom THEN "BOTTOM_RIGHT"
        ELSE IF isNearLeft THEN "LEFT"
        ELSE IF isNearRight THEN "RIGHT"
        ELSE IF isNearTop THEN "TOP"
        ELSE IF isNearBottom THEN "BOTTOM"
        ELSE "NONE"

\* an updateCursor without the early return while something is modified
updateCursorWhileModifying(modifying, ctrl, mx, my, rect, mode) ==
    IF ~ctrl THEN "NONE" ELSE HitTest(mx, my, rect)

\* the resizeMode updateCursor leaves behind
updateCursor(modifying, ctrl, mx, my, rect, mode) ==
    IF modifying THEN mode
    ELSE IF ~ctrl THEN "NONE"
    ELSE HitTest(mx, my, rect)

\* the cursor updateCursor sets for a handle
CursorFor(mode) ==
    CASE mode \in {"TOP_LEFT", "BOTTOM_RIGHT"} -> "nwse-resize"
      [] mode \in {"TOP_RIGHT", "BOTTOM_LEFT"} -> "nesw-resize"
      [] mode \in {"LEFT", "RIGHT"} -> "ew-resize"
      [] mode \in {"TOP", "BOTTOM"} -> "ns-resize"
      [] OTHER -> "move"

\* the style.cursor updateCursor leaves behind
cursorOf(modifying, ctrl, mx, my, rect, cur) ==
    IF modifying THEN cur
    ELSE IF ~ctrl THEN "pointer"
    ELSE CursorFor(HitTest(mx, my, rect))

\* a visibility test that compares the position exactly, without tolerance
updateResetButtonVisibilityExact(w, h, left, top, dLeft, dTop, ctrl) ==
    LET shouldShow == \/ w # defaultScreenshotWidth
                      \/ h # defaultScreenshotHeight
                      \/ left # dLeft
                      \/ top # dTop
    IN  IF shouldShow /\ ctrl THEN "flex" ELSE "none"

\* the display updateResetButtonVisibility gives the reset button
updateResetButtonVisibility(w, h, left, top, dLeft, dTop, ctrl) ==
    LET shouldShow == \/ w # defaultScreenshotWidth
                      \/ h # defaultScreenshotHeight
                      \/ Abs(left - dLeft) > Px(1)
                      \/ Abs(top - dTop) > Px(1)
    IN  IF shouldShow /\ ctrl THEN "flex" ELSE "none"

\* a position that puts the whole margin on one side
CenteredPosFullMargin(canvasDim, size) == canvasDim - size

\* the centred position updateScreenshotAreaIndicator computes
CenteredPos(canvasDim, size) == Half(canvasDim - size)

\* a drag clamp without the lower bound
BoundedDragNoFloor(canvasDim, size, newPos) == Min(canvasDim - size, newPos)

\* the drag clamp of the window mousemove listener
BoundedDrag(canvasDim, size, newPos) == Max(0, Min(canvasDim - size, newPos))

\* a size clamp without the upper bound
ClampSizeNoCeiling(canvasDim, proposed) == Max(MinSize, proposed)

\* Math.max(MIN_SCREENSHOT_SIZE, Math.min(canvasDimension, proposed)) of the resize switch
ClampSize(canvasDim, proposed) == Max(MinSize, Min(canvasDim, proposed))

\* the switch over resizeMode of the window mousemove listener
ResizeByHandle(mode, deltaX, deltaY) ==
    LET wMinus == ClampSize(clientWidth, startWidth - deltaX)
        wPlus  == ClampSize(clientWidth, startWidth + deltaX)
        hMinus == ClampSize(clientHeight, startHeight - deltaY)
        hPlus  == ClampSize(clientHeight, startHeight + deltaY)
        same   == [width |-> startWidth, height |-> startHeight,
                   left |-> startLeft, top |-> startTop]
    IN  CASE mode = "TOP_LEFT" ->
               [width |-> wMinus, height |-> hMinus,
                left |-> startLeft + (startWidth - wMinus),
                top |-> startTop + (startHeight - hMinus)]
          [] mode = "TOP_RIGHT" ->
               [width |-> wPlus, height |-> hMinus,
                left |-> startLeft,
                top |-> startTop + (startHeight - hMinus)]
          [] mode = "BOTTOM_LEFT" ->
               [width |-> wMinus, height |-> hPlus,
                left |-> startLeft + (startWidth - wMinus),
                top |-> startTop]
          [] mode = "BOTTOM_RIGHT" ->
               [width |-> wPlus, height |-> hPlus, left |-> startLeft, top |-> startTop]
          [] mode = "LEFT" ->
               [width |-> wMinus, height |-> startHeight,
                left |-> startLeft + (startWidth - wMinus), top |-> startTop]
          [] mode = "RIGHT" ->
               [width |-> wPlus, height |-> startHeight, left |-> startLeft, top |-> startTop]
          [] mode = "TOP" ->
               [width |-> startWidth, height |-> hMinus,
                left |-> startLeft, top |-> startTop + (startHeight - hMinus)]
          [] mode = "BOTTOM" ->
               [width |-> startWidth, height |-> hPlus, left |-> startLeft, top |-> startTop]
          [] OTHER -> same

\* EnsureWithinBounds without its last two statements (the re-clamp to the minimum)
EnsureWithinBoundsNoMin(r) ==
    LET newLeft   == Max(0, r.left)
        newTop    == Max(0, r.top)
    IN  [left |-> newLeft, top |-> newTop,
         width |-> Min(clientWidth - newLeft, r.width),
         height |-> Min(clientHeight - newTop, r.height)]

\* "Ensure the indicator stays within bounds" of the resize branch
EnsureWithinBounds(r) ==
    LET newLeft   == Max(0, r.left)
        newTop    == Max(0, r.top)
        newWidth  == Max(MinSize, Min(clientWidth - newLeft, r.width))
        newHeight == Max(MinSize, Min(clientHeight - newTop, r.height))
    IN  [left |-> newLeft, top |-> newTop, width |-> newWidth, height |-> newHeight]

\* ------------------------------------------------------ capture: helpers
\* a call of screenshot() that has not been made yet
IdleCapture ==
    [pc |-> "idle",            \* idle, read, compress, popup, resolved, rejected
     trace |-> <<>>,           \* the steps run so far, in order
     failedAt |-> "none",      \* the step that raised
     bgColor |-> [r |-> 0, g |-> 0, b |-> 0],
     width |-> 0, height |-> 0,   \* canvas.width and canvas.height as read at the call
     source |-> [x |-> 0, y |-> 0, width |-> 0, height |-> 0],
     pre |-> [offscreenMode |-> FALSE, renderOverlays |-> FALSE, gizmoEnabled |-> FALSE],
     renderPendingAtRead |-> FALSE,
     \* the renderer as it is when colorBuffer.read is called
     atRead |-> [offscreenMode |-> FALSE, width |-> 0, height |-> 0,
                 renderOverlays |-> TRUE, gizmoEnabled |-> TRUE,
                 clearColor |-> [r |-> 0, g |-> 0, b |-> 0], forceRender |-> FALSE],
     data |-> <<>>, rgbData |-> <<>>,
     compressArgs |-> [pixels |-> <<>>, width |-> 0, height |-> 0],
     popups |-> <<>>,          \* the showPopup calls: their messages
     completions |-> <<>>]     \* the onScreenshot calls: their data URLs

\* canvas.width / canvas.height: the backing store, at one device pixel per CSS pixel
CanvasWidth == clientWidth
CanvasHeight == clientHeight

\* a source rectangle that keeps the region's size whatever its position
SourceRectUnclamped ==
    [x |-> Max(0, IndicatorRect.left - canvasRect.left),
     y |-> Max(0, IndicatorRect.top - canvasRect.top),
     width |-> screenshotWidth, height |-> screenshotHeight]

\* the safe source rectangle screenshot() computes
SourceRect ==
    LET sourceX == IndicatorRect.left - canvasRect.left
        sourceY == IndicatorRect.top - canvasRect.top
        safeSourceX == Max(0, sourceX)
        safeSourceY == Max(0, sourceY)
    IN  [x |-> safeSourceX, y |-> safeSourceY,
         width  |-> Min(screenshotWidth, CanvasWidth - safeSourceX),
         height |-> Min(screenshotHeight, CanvasHeight - safeSourceY)]

\* a value stored into a Uint8Array
ToUint8(v) == v % 256

\* a blending loop that truncates the blend instead of rounding it
CompositePixelTruncating(r, g, b, a, bg) ==
    LET Blend(ch, bg2) == (2 * ch * a + bg2 * (255 - a)) \div 510
    IN  IF a = 0 THEN <<ToUint8((bg.r * 255) \div 2), ToUint8((bg.g * 255) \div 2),
                        ToUint8((bg.b * 255) \div 2)>>
        ELSE IF a = 255 THEN <<r, g, b>>
        ELSE <<ToUint8(Blend(r, bg.r * 255)), ToUint8(Blend(g, bg.g * 255)),
               ToUint8(Blend(b, bg.b * 255))>>

\* one pixel of the blending loop; the background channels are bg.c * 255 / 2
CompositePixel(r, g, b, a, bg) ==
    LET bgR2 == bg.r * 255
        bgG2 == bg.g * 255
        bgB2 == bg.b * 255
        \* Math.round(ch * (a / 255) + bgCh * (1 - a / 255))
        Blend(ch, bg2) == (2 * ch * a + bg2 * (255 - a) + 255) \div 510
    IN  IF a = 0 THEN <<ToUint8(bgR2 \div 2), ToUint8(bgG2 \div 2), ToUint8(bgB2 \div 2)>>
        ELSE IF a = 255 THEN <<r, g, b>>
        ELSE <<ToUint8(Blend(r, bgR2)), ToUint8(Blend(g, bgG2)), ToUint8(Blend(b, bgB2))>>

\* the while loop over data: rgbData
RECURSIVE Composite(_, _)
Composite(data, bg) ==
    IF Len(data) < 4 THEN <<>>
    ELSE CompositePixel(data[1], data[2], data[3], data[4], bg)
         \o Composite(SubSeq(data, 5, Len(data)), bg)

\* compress called with the region's size at the time of the call
CompressArgsLive(data, rgbData, safeWidth, safeHeight) ==
    [pixels |-> data, width |-> SourceRect.width, height |-> SourceRect.height]

\* the arguments of compressor.compress(...)
CompressArgs(data, rgbData, safeWidth, safeHeight) ==
    [pixels |-> data, width |-> safeWidth, height |-> safeHeight]

\* `data:image/png;base64,${arrayBufferToBase64(arrayBuffer)}` of the compressed args
DataUrl(args) == [mime |-> "image/png", png |-> args]

\* a synchronous part that reads the frame back before it forces the render
SyncStepsReadFirst ==
    <<"bgClr", "startOffscreenMode", "alloc", "copyRt", "read", "forceRender">>

\* the steps of the synchronous part of screenshot(), in program order
SyncSteps == <<"bgClr", "startOffscreenMode", "forceRender", "alloc", "copyRt", "read">>

StepIndex(step) == CHOOSE i \in 1 .. Len(SyncSteps) : SyncSteps[i] = step

\* the steps run when `fail` raises ("none": all of them)
StepsThrough(fail) ==
    IF fail = "none" THEN SyncSteps ELSE SubSeq(SyncSteps, 1, StepIndex(fail))

\* a try block that ends before the compositing loop
CatchesUntilRead(step) ==
    step \in {"bgClr", "startOffscreenMode", "forceRender", "alloc", "copyRt", "read"}

\* the steps inside the try block of screenshot()
Catches(step) ==
    step \in {"bgClr", "startOffscreenMode", "forceRender", "alloc", "copyRt", "read",
              "composite", "compress", "onScreenshot"}

\* a catch block that logs to the console instead of showing the popup
CatchLogOnly(rec, step) ==
    IF Catches(step)
    THEN [rec EXCEPT !.failedAt = step, !.pc = "popup"]
    ELSE [rec EXCEPT !.failedAt = step, !.pc = "rejected"]

\* `step` raised in the capture `rec`: the catch block, up to its await
Catch(rec, step) ==
    IF Catches(step)
    THEN [rec EXCEPT !.failedAt = step, !.pc = "popup",
                     !.popups = Append(@, <<"'", step, "'">>)]
    ELSE [rec EXCEPT !.failedAt = step, !.pc = "rejected"]

\* main: before poll() is first called
NoPoll == [hasLoaded |-> FALSE, timers |-> 0, fetching |-> 0, parsing |-> 0,
           importing |-> 0, fetches |-> 0, imports |-> 0,
           body |-> "none", last |-> "none"]

\* poll(), from the call to its first await or to its return
PollCall(p) ==
    IF p.hasLoaded THEN p
    ELSE [p EXCEPT !.fetching = @ + 1, !.fetches = @ + 1]


\* -------------------------------------------------------------------- Init
InitWith(viewports, sizes, bgColors, frames) ==
    /\ \E vp \in viewports :
         /\ clientWidth = Px(vp[1])
         /\ clientHeight = Px(vp[2])
    /\ \E o \in CanvasOrigins : canvasRect = [left |-> Px(o[1]), top |-> Px(o[2])]
    /\ \E d \in sizes :
         /\ defaultScreenshotWidth = Px(d[1])
         /\ defaultScreenshotHeight = Px(d[2])
    /\ screenshotWidth = defaultScreenshotWidth
    /\ screenshotHeight = defaultScreenshotHeight
    /\ style = [left   |-> CenteredPos(clientWidth, screenshotWidth),
                top    |-> CenteredPos(clientHeight, screenshotHeight),
                width  |-> screenshotWidth,
                height |-> screenshotHeight]
    /\ defaultLeft = CenteredPos(clientWidth, screenshotWidth)
    /\ defaultTop = CenteredPos(clientHeight, screenshotHeight)
    /\ isDragging = FALSE /\ isResizing = FALSE /\ resizeMode = "NONE"
    /\ startX = 0 /\ startY = 0 /\ startWidth = 0 /\ startHeight = 0
    /\ startLeft = 0 /\ startTop = 0
    /\ modifyMode = "NORMAL" /\ isHovering = FALSE /\ isCtrlPressed = FALSE
    /\ mouseX = 0 /\ mouseY = 0
    /\ pointerEvents = "auto"
    /\ cursor = ""
    /\ resetDisplay = "none"
    /\ onReset \in BOOLEAN
    /\ resetCalls = 0
    /\ updates = 0 /\ steps = 0
    /\ lastOp = [op |-> "constructor"]
    /\ hasServer \in BOOLEAN
    /\ bgClr \in bgColors
    /\ frame \in frames
    /\ renderer = [offscreenMode |-> FALSE, width |-> 0, height |-> 0,
                   renderOverlays |-> TRUE, gizmoEnabled |-> TRUE,
                   clearColor |-> [r |-> 0, g |-> 0, b |-> 0], forceRender |-> FALSE]
    /\ cap = [c \in Captures |-> IdleCapture]
    /\ nCaptures = 0
    /\ poll = IF hasServer THEN PollCall(NoPoll) ELSE NoPoll
    /\ upload = "none"

Init == InitWith(InitialViewports, DefaultSizes, BgColors, PixelBuffers)

\* ----------------------------------------------------------------- actions
geometryVars == <<clientWidth, clientHeight, screenshotWidth, screenshotHeight, style,
                  defaultLeft, defaultTop>>
startVars == <<startX, startY, startWidth, startHeight, startLeft, startTop>>
fixedVars == <<canvasRect, defaultScreenshotWidth, defaultScreenshotHeight, onReset>>

\* one more input handler run, within the bound of the model; the input
\* handlers touch nothing of the capture
Tick == steps < MaxSteps /\ steps' = steps + 1 /\ UNCHANGED captureVars

\* window keydown / keyup with e.key === 'Control'
CtrlKey(down) ==
    /\ isCtrlPressed' = down
    /\ modifyMode' = ModifyModeOf(down, isModifying, isHovering)
    /\ pointerEvents' = PointerEventsOf(modifyMode')
    /\ resizeMode' = updateCursor(isModifying, down, mouseX, mouseY, IndicatorRect, resizeMode)
    /\ cursor' = cursorOf(isModifying, down, mouseX, mouseY, IndicatorRect, cursor)
    /\ resetDisplay' = updateResetButtonVisibility(screenshotWidth, screenshotHeight,
                           style.left, style.top, defaultLeft, defaultTop, down)

KeyDownControl ==
    /\ Tick
    /\ ~isCtrlPressed
    /\ CtrlKey(TRUE)
    /\ lastOp' = [op |-> "keydown"]
    /\ UNCHANGED <<geometryVars, startVars, fixedVars, isDragging, isResizing, isHovering,
                   mouseX, mouseY, resetCalls, updates>>

\* a keyup listener that also ends the drag or resize
KeyUpControlEndsGesture ==
    /\ Tick
    /\ isCtrlPressed
    /\ CtrlKey(FALSE)
    /\ isDragging' = FALSE /\ isResizing' = FALSE
    /\ lastOp' = [op |-> "keyup"]
    /\ UNCHANGED <<geometryVars, startVars, fixedVars, isHovering,
                   mouseX, mouseY, resetCalls, updates>>

KeyUpControl ==
    /\ Tick
    /\ isCtrlPressed
    /\ CtrlKey(FALSE)
    /\ lastOp' = [op |-> "keyup"]
    /\ UNCHANGED <<geometryVars, startVars, fixedVars, isDragging, isResizing, isHovering,
                   mouseX, mouseY, resetCalls, updates>>

\* pointerenter and pointermove on the indicator run the same statements
Hover ==
    /\ isHovering' = TRUE
    /\ modifyMode' = ModifyModeOf(isCtrlPressed, isModifying, TRUE)
    /\ pointerEvents' = PointerEventsOf(modifyMode')
    /\ resizeMode' = updateCursor(isModifying, isCtrlPressed, mouseX, mouseY,
                                  IndicatorRect, resizeMode)
    /\ cursor' = cursorOf(isModifying, isCtrlPressed, mouseX, mouseY, IndicatorRect, cursor)
    /\ UNCHANGED <<geometryVars, startVars, fixedVars, isDragging, isResizing, isCtrlPressed,
                   mouseX, mouseY, resetDisplay, resetCalls, updates>>

PointerEnter ==
    /\ Tick
    /\ pointerEvents = "auto"
    /\ ~isHovering
    /\ Hover
    /\ lastOp' = [op |-> "pointerenter"]

PointerMove ==
    /\ Tick
    /\ pointerEvents = "auto"
    /\ isHovering
    /\ Hover
    /\ lastOp' = [op |-> "pointermove"]

PointerLeave ==
    /\ Tick
    /\ isHovering
    /\ isHovering' = FALSE
    /\ modifyMode' = ModifyModeOf(isCtrlPressed, isModifying, FALSE)
    /\ pointerEvents' = PointerEventsOf(modifyMode')
    /\ lastOp' = [op |-> "pointerleave"]
    /\ UNCHANGED <<geometryVars, startVars, fixedVars, cursor, isDragging, isResizing, resizeMode,
                   isCtrlPressed, mouseX, mouseY, resetDisplay, resetCalls, updates>>

\* whether a mouse event at (x, y) has the indicator as its target
OverIndicator(x, y) ==
    /\ pointerEvents = "auto"
    /\ IndicatorRect.left <= x /\ x <= IndicatorRect.right
    /\ IndicatorRect.top <= y /\ y <= IndicatorRect.bottom

\* mousedown on the indicator; a press follows the mousemove to its position
MouseDown ==
    /\ Tick
    /\ OverIndicator(mouseX, mouseY)
    /\ IF resizeMode # "NONE"
       THEN isResizing' = TRUE /\ UNCHANGED isDragging
       ELSE isDragging' = TRUE /\ UNCHANGED isResizing
    /\ startX' = mouseX
    /\ startY' = mouseY
    /\ startWidth' = screenshotWidth
    /\ startHeight' = screenshotHeight
    /\ startLeft' = IndicatorRect.left - canvasRect.left
    /\ startTop' = IndicatorRect.top - canvasRect.top
    /\ lastOp' = [op |-> "mousedown"]
    /\ UNCHANGED <<geometryVars, fixedVars, cursor, resizeMode, modifyMode, isHovering, isCtrlPressed,
                   mouseX, mouseY, pointerEvents, resetDisplay, resetCalls, updates>>

\* the pointer positions the model moves the mouse to while nothing is modified:
\* one point per hit-test zone of the indicator
ZonePoints ==
    LET r == IndicatorRect
        xs == {r.left + Px(1), r.left + Half(style.width), r.right - Px(1)}
        ys == {r.top + Px(1), r.top + Half(style.height), r.bottom - Px(1)}
    IN  xs \X ys

\* a drag that adds the delta to the current position
DragBaseCurrent == [left |-> style.left, top |-> style.top]

\* the position a drag move adds the pointer delta to
DragBase == [left |-> startLeft, top |-> startTop]

\* the two window mousemove listeners, in registration order
WindowMouseMove(x, y) ==
    /\ mouseX' = x
    /\ mouseY' = y
    /\ IF isDragging
       THEN LET deltaX == x - startX
                deltaY == y - startY
                boundedLeft == BoundedDrag(clientWidth, screenshotWidth,
                                          DragBase.left + deltaX)
                boundedTop  == BoundedDrag(clientHeight, screenshotHeight,
                                           DragBase.top + deltaY)
            IN  /\ style' = [style EXCEPT !.left = boundedLeft, !.top = boundedTop]
                /\ resetDisplay' = updateResetButtonVisibility(screenshotWidth,
                                       screenshotHeight, boundedLeft, boundedTop,
                                       defaultLeft, defaultTop, isCtrlPressed)
                /\ lastOp' = [op |-> "drag", from |-> <<style.left, style.top>>]
                /\ UNCHANGED <<screenshotWidth, screenshotHeight>>
       ELSE IF isResizing
       THEN LET deltaX == x - startX
                deltaY == y - startY
                switched == ResizeByHandle(resizeMode, deltaX, deltaY)
            n == EnsureWithinBounds(switched)
            IN  /\ screenshotWidth' = n.width
                /\ screenshotHeight' = n.height
                /\ style' = [left |-> n.left, top |-> n.top,
                             width |-> n.width, height |-> n.height]
                /\ resetDisplay' = updateResetButtonVisibility(n.width, n.height,
                                       n.left, n.top, defaultLeft, defaultTop, isCtrlPressed)
                /\ lastOp' = [op |-> "resize", switched |-> switched]
       ELSE /\ lastOp' = [op |-> "mousemove"]
            /\ UNCHANGED <<screenshotWidth, screenshotHeight, style, resetDisplay>>
    /\ UNCHANGED <<clientWidth, clientHeight, defaultLeft, defaultTop, startVars, fixedVars, cursor,
                   isDragging, isResizing, resizeMode, modifyMode, isHovering, isCtrlPressed,
                   pointerEvents, resetCalls, updates>>

MouseMoveIdle ==
    /\ Tick
    /\ ~isModifying
    /\ \E p \in ZonePoints : WindowMouseMove(p[1], p[2])

MouseMoveModifying ==
    /\ Tick
    /\ isModifying
    /\ \E d \in Deltas : WindowMouseMove(startX + Px(d[1]), startY + Px(d[2]))

\* a mouseup listener that forgets to clear the resize flag and the handle
MouseUpKeepsResizing ==
    /\ Tick
    /\ isModifying
    /\ isDragging' = FALSE
    /\ resetDisplay' = updateResetButtonVisibility(screenshotWidth, screenshotHeight,
                           style.left, style.top, defaultLeft, defaultTop, isCtrlPressed)
    /\ lastOp' = [op |-> "mouseup"]
    /\ UNCHANGED <<geometryVars, startVars, fixedVars, cursor, modifyMode, isHovering, isCtrlPressed,
                   mouseX, mouseY, pointerEvents, resetCalls, updates, isResizing, resizeMode>>

\* window mouseup
MouseUp ==
    /\ Tick
    /\ isModifying
    /\ isDragging' = FALSE
    /\ isResizing' = FALSE
    /\ resizeMode' = "NONE"
    /\ resetDisplay' = updateResetButtonVisibility(screenshotWidth, screenshotHeight,
                           style.left, style.top, defaultLeft, defaultTop, isCtrlPressed)
    /\ lastOp' = [op |-> "mouseup"]
    /\ UNCHANGED <<geometryVars, startVars, fixedVars, cursor, modifyMode, isHovering, isCtrlPressed,
                   mouseX, mouseY, pointerEvents, resetCalls, updates>>

\* an updateScreenshotAreaIndicator that stores the default position for any size
UpdateIndicatorAlways(cw, ch, w, h) ==
    LET left == CenteredPos(cw, w)
        top  == CenteredPos(ch, h)
    IN  /\ defaultLeft' = left /\ defaultTop' = top
        /\ style' = [left |-> left, top |-> top, width |-> w, height |-> h]

\* updateScreenshotAreaIndicator, for the size (w, h) in a canvas of (cw, ch)
UpdateIndicator(cw, ch, w, h) ==
    LET left == CenteredPos(cw, w)
        top  == CenteredPos(ch, h)
    IN  /\ IF w = defaultScreenshotWidth /\ h = defaultScreenshotHeight
           THEN defaultLeft' = left /\ defaultTop' = top
           ELSE UNCHANGED <<defaultLeft, defaultTop>>
        /\ style' = [left |-> left, top |-> top, width |-> w, height |-> h]

\* the window resize listener, after the layout gave the canvas a new client size
WindowResize(vw, vh) ==
    /\ Tick
    /\ updates < MaxUpdates
    /\ updates' = updates + 1
    /\ <<Px(vw), Px(vh)>> # <<clientWidth, clientHeight>>
    /\ clientWidth' = Px(vw)
    /\ clientHeight' = Px(vh)
    /\ UpdateIndicator(Px(vw), Px(vh), screenshotWidth, screenshotHeight)
    /\ lastOp' = [op |-> "resize-window"]
    /\ UNCHANGED <<screenshotWidth, screenshotHeight, startVars, fixedVars, cursor, isDragging,
                   isResizing, resizeMode, modifyMode, isHovering, isCtrlPressed,
                   mouseX, mouseY, pointerEvents, resetDisplay, resetCalls>>

\* setScreenshotSize(width, height), also the 'capturer.setScreenshotSize' event
SetScreenshotSize(w, h) ==
    /\ Tick
    /\ updates < MaxUpdates
    /\ updates' = updates + 1
    /\ screenshotWidth' = Px(w)
    /\ screenshotHeight' = Px(h)
    /\ UpdateIndicator(clientWidth, clientHeight, Px(w), Px(h))
    /\ resetDisplay' = updateResetButtonVisibility(Px(w), Px(h), style'.left, style'.top,
                                                   defaultLeft', defaultTop', isCtrlPressed)
    /\ lastOp' = [op |-> "setSize", width |-> Px(w), height |-> Px(h)]
    /\ UNCHANGED <<clientWidth, clientHeight, startVars, fixedVars, cursor, isDragging, isResizing,
                   resizeMode, modifyMode, isHovering, isCtrlPressed, mouseX, mouseY,
                   pointerEvents, resetCalls>>

\* the size, the position and the stored default position of the indicator
Geometry ==
    [width |-> screenshotWidth, height |-> screenshotHeight,
     left |-> style.left, top |-> style.top,
     styleWidth |-> style.width, styleHeight |-> style.height,
     defaultLeft |-> defaultLeft, defaultTop |-> defaultTop]

\* a reset that re-centres before it restores the default size
resetGeometryStale(g) ==
    [width |-> defaultScreenshotWidth, height |-> defaultScreenshotHeight,
     left |-> CenteredPos(clientWidth, g.width),
     top |-> CenteredPos(clientHeight, g.height),
     styleWidth |-> g.width, styleHeight |-> g.height,
     defaultLeft |-> Half(clientWidth - defaultScreenshotWidth),
     defaultTop |-> Half(clientHeight - defaultScreenshotHeight)]

\* a reset that leaves the stored default position as it is
resetGeometryKeepDefault(g) ==
    [width |-> defaultScreenshotWidth, height |-> defaultScreenshotHeight,
     left |-> CenteredPos(clientWidth, defaultScreenshotWidth),
     top |-> CenteredPos(clientHeight, defaultScreenshotHeight),
     styleWidth |-> defaultScreenshotWidth, styleHeight |-> defaultScreenshotHeight,
     defaultLeft |-> g.defaultLeft, defaultTop |-> g.defaultTop]

\* the geometry resetScreenshotArea leaves behind, called with the geometry g
resetGeometry(g) ==
    [width |-> defaultScreenshotWidth, height |-> defaultScreenshotHeight,
     left |-> CenteredPos(clientWidth, defaultScreenshotWidth),
     top |-> CenteredPos(clientHeight, defaultScreenshotHeight),
     styleWidth |-> defaultScreenshotWidth, styleHeight |-> defaultScreenshotHeight,
     defaultLeft |-> Half(clientWidth - defaultScreenshotWidth),
     defaultTop |-> Half(clientHeight - defaultScreenshotHeight)]

\* resetScreenshotArea, run by a pointerdown on the (displayed) reset button
ResetScreenshotArea ==
    /\ Tick
    /\ resetDisplay = "flex"
    /\ updates < MaxUpdates
    /\ updates' = updates + 1
    /\ LET n == resetGeometry(Geometry)
           fired == IF onReset THEN 1 ELSE 0
       IN  /\ screenshotWidth' = n.width
           /\ screenshotHeight' = n.height
           /\ style' = [left |-> n.left, top |-> n.top,
                        width |-> n.styleWidth, height |-> n.styleHeight]
           /\ defaultLeft' = n.defaultLeft
           /\ defaultTop' = n.defaultTop
           /\ resetDisplay' = updateResetButtonVisibility(n.width, n.height, n.left, n.top,
                                  n.defaultLeft, n.defaultTop, isCtrlPressed)
           /\ resetCalls' = resetCalls + fired
           /\ lastOp' = [op |-> "reset", fired |-> fired]
    /\ UNCHANGED <<clientWidth, clientHeight, startVars, fixedVars, cursor, isDragging, isResizing,
                   resizeMode, modifyMode, isHovering, isCtrlPressed, mouseX, mouseY,
                   pointerEvents>>

RegionNext ==
    \/ KeyDownControl
    \/ KeyUpControl
    \/ PointerEnter
    \/ PointerMove
    \/ PointerLeave
    \/ MouseDown
    \/ MouseMoveIdle
    \/ MouseMoveModifying
    \/ MouseUp
    \/ \E vp \in Viewports : WindowResize(vp[1], vp[2])
    \/ \E s \in SetSizeArgs : SetScreenshotSize(s[1], s[2])
    \/ ResetScreenshotArea

\* ------------------------------------------------------ capture: actions
regionState == <<clientWidth, clientHeight, canvasRect, screenshotWidth, screenshotHeight,
                 style, isDragging, isResizing, resizeMode,
                 startX, startY, startWidth, startHeight, startLeft, startTop,
                 defaultScreenshotWidth, defaultScreenshotHeight, defaultLeft, defaultTop,
                 modifyMode, isHovering, isCtrlPressed, mouseX, mouseY,
                 pointerEvents, cursor, resetDisplay, onReset, resetCalls, updates, steps>>

\* screenshot(), from the call to its first await (or to the catch block's);
\* failAt is the collaborator call that raises
Screenshot(c, failAt) ==
    LET src  == SourceRect
        fail == IF failAt \in {"bgClr", "startOffscreenMode"} THEN failAt
                ELSE IF src.width * src.height * 4 < 0 THEN "alloc"
                ELSE failAt
        entered == fail \notin {"bgClr", "startOffscreenMode"}
        after == IF entered
                 THEN [offscreenMode |-> TRUE, width |-> CanvasWidth, height |-> CanvasHeight,
                       renderOverlays |-> FALSE, gizmoEnabled |-> FALSE,
                       clearColor |-> bgClr, forceRender |-> TRUE]
                 ELSE renderer
        rec == [cap[c] EXCEPT
                  !.trace = StepsThrough(fail),
                  !.bgColor = IF fail = "bgClr" THEN @ ELSE bgClr,
                  !.width = IF fail = "bgClr" THEN @ ELSE CanvasWidth,
                  !.height = IF fail = "bgClr" THEN @ ELSE CanvasHeight,
                  !.source = IF fail = "bgClr" THEN @ ELSE src,
                  !.pre = [offscreenMode |-> renderer.offscreenMode,
                           renderOverlays |-> renderer.renderOverlays,
                           gizmoEnabled |-> renderer.gizmoEnabled],
                  !.renderPendingAtRead = IF fail = "none" THEN after.forceRender ELSE @,
                  !.atRead = IF fail = "none" THEN after ELSE @]
    IN  /\ renderer' = after
        /\ cap' = [cap EXCEPT ![c] = IF fail = "none" THEN [rec EXCEPT !.pc = "read"]
                                     ELSE Catch(rec, fail)]

\* the collaborator calls of the synchronous part that the model lets raise
SyncFailures == {"none", "bgClr", "startOffscreenMode"}

Trigger(failAt) ==
    /\ nCaptures < MaxCaptures
    /\ nCaptures' = nCaptures + 1
    /\ Screenshot(nCaptures + 1, failAt)
    /\ lastOp' = [op |-> "screenshot"]
    /\ UNCHANGED <<regionState, poll, upload, hasServer, bgClr, frame>>

\* main's document keydown listener, e.key === 'Enter'
KeyDownEnter ==
    /\ hasServer
    /\ \E failAt \in SyncFailures : Trigger(failAt)

\* the 'capturer.takeScreenshot' event
TakeScreenshotEvent ==
    /\ \E failAt \in SyncFailures : Trigger(failAt)

\* a continuation in which a rejected read ends the call without reaching the
\* catch block
ReadSettledUncaught(c, outcome) ==
    /\ cap[c].pc = "read"
    /\ \/ /\ outcome = "rejected"
          /\ cap' = [cap EXCEPT ![c] = [@ EXCEPT !.failedAt = "read", !.pc = "rejected"]]
       \/ /\ outcome = "compositeThrows"
          /\ cap' = [cap EXCEPT ![c] =
                       Catch([cap[c] EXCEPT !.data = frame, !.trace = Append(@, "composite")],
                             "composite")]
       \/ /\ outcome = "fulfilled"
          /\ LET d == frame
                 rgb == Composite(d, cap[c].bgColor)
             IN  cap' = [cap EXCEPT ![c] =
                             [@ EXCEPT !.data = d,
                                       !.rgbData = rgb,
                                       !.compressArgs = CompressArgs(d, rgb,
                                                            cap[c].source.width,
                                                            cap[c].source.height),
                                       !.trace = @ \o <<"composite", "compress">>,
                                       !.pc = "compress"]]
    /\ lastOp' = [op |-> "screenshot"]
    /\ UNCHANGED <<regionState, poll, upload, hasServer, bgClr, frame, renderer, nCaptures>>

\* the awaited read settles: the compositing loop and the call of compress
ReadSettled(c, outcome) ==
    /\ cap[c].pc = "read"
    /\ \/ /\ outcome = "rejected"
          /\ cap' = [cap EXCEPT ![c] = Catch(cap[c], "read")]
       \/ /\ outcome = "compositeThrows"
          /\ cap' = [cap EXCEPT ![c] =
                       Catch([cap[c] EXCEPT !.data = frame, !.trace = Append(@, "composite")],
                             "composite")]
       \/ /\ outcome = "fulfilled"
          /\ LET d == frame
                 rgb == Composite(d, cap[c].bgColor)
             IN  cap' = [cap EXCEPT ![c] =
                             [@ EXCEPT !.data = d,
                                       !.rgbData = rgb,
                                       !.compressArgs = CompressArgs(d, rgb,
                                                            cap[c].source.width,
                                                            cap[c].source.height),
                                       !.trace = @ \o <<"composite", "compress">>,
                                       !.pc = "compress"]]
    /\ lastOp' = [op |-> "screenshot"]
    /\ UNCHANGED <<regionState, poll, upload, hasServer, bgClr, frame, renderer, nCaptures>>

\* how the awaited compress and the callback that follows it can end
CompressOutcomes == {"fulfilled", "rejected", "callbackThrows"}

\* a continuation that hands the data URL to the callback twice
CompressSettledTwice(c, outcome) ==
    /\ cap[c].pc = "compress"
    /\ \/ /\ outcome = "rejected"
          /\ cap' = [cap EXCEPT ![c] = Catch(cap[c], "compress")]
       \/ /\ outcome = "callbackThrows"
          /\ hasServer
          /\ cap' = [cap EXCEPT ![c] =
                       Catch([cap[c] EXCEPT
                                 !.completions = Append(@, DataUrl(cap[c].compressArgs))],
                             "onScreenshot")]
       \/ /\ outcome = "fulfilled"
          /\ cap' = [cap EXCEPT ![c] =
                       [@ EXCEPT !.pc = "resolved",
                                 !.completions =
                                     IF hasServer
                                     THEN @ \o <<DataUrl(cap[c].compressArgs),
                                                 DataUrl(cap[c].compressArgs)>>
                                     ELSE @]]
    /\ lastOp' = [op |-> "screenshot"]
    /\ UNCHANGED <<regionState, poll, upload, hasServer, bgClr, frame, renderer, nCaptures>>

\* the awaited compress settles: the data URL and the onScreenshot callback
CompressSettled(c, outcome) ==
    /\ cap[c].pc = "compress"
    /\ \/ /\ outcome = "rejected"
          /\ cap' = [cap EXCEPT ![c] = Catch(cap[c], "compress")]
       \/ /\ outcome = "callbackThrows"
          /\ hasServer
          /\ cap' = [cap EXCEPT ![c] =
                       Catch([cap[c] EXCEPT
                                 !.completions = Append(@, DataUrl(cap[c].compressArgs))],
                             "onScreenshot")]
       \/ /\ outcome = "fulfilled"
          /\ cap' = [cap EXCEPT ![c] =
                       [@ EXCEPT !.pc = "resolved",
                                 !.completions =
                                     IF hasServer
                                     THEN Append(@, DataUrl(cap[c].compressArgs))
                                     ELSE @]]
    /\ lastOp' = [op |-> "screenshot"]
    /\ UNCHANGED <<regionState, poll, upload, hasServer, bgClr, frame, renderer, nCaptures>>

\* the popup awaited by the catch block is closed
PopupClosed(c) ==
    /\ cap[c].pc = "popup"
    /\ cap' = [cap EXCEPT ![c].pc = "resolved"]
    /\ lastOp' = [op |-> "screenshot"]
    /\ UNCHANGED <<regionState, poll, upload, hasServer, bgClr, frame, renderer, nCaptures>>

\* the scene renders the frame that forceRender asked for
RenderFrame ==
    /\ renderer.forceRender
    /\ renderer' = [renderer EXCEPT !.forceRender = FALSE]
    /\ UNCHANGED <<regionState, poll, upload, lastOp, hasServer, bgClr, frame, cap, nCaptures>>

\* the input handlers, at most MaxInputs of them, in a behaviour that takes screenshots
InputDuringCapture ==
    /\ steps < MaxInputs
    /\ \/ KeyDownControl
       \/ \E s \in CaptureSetSizeArgs : SetScreenshotSize(s[1], s[2])
       \/ \E vp \in Viewports : WindowResize(vp[1], vp[2])

CaptureNext ==
    \/ KeyDownEnter
    \/ TakeScreenshotEvent
    \/ \E c \in Captures, o \in {"fulfilled", "rejected", "compositeThrows"} : ReadSettled(c, o)
    \/ \E c \in Captures, o \in CompressOutcomes : CompressSettled(c, o)
    \/ \E c \in Captures : PopupClosed(c)
    \/ RenderFrame
    \/ InputDuringCapture

\* the capture pipeline where every awaited operation settles: the read, the
\* encoder and the popup of each call
CaptureFairness ==
    \A c \in Captures :
        /\ WF_vars(\E o \in {"fulfilled", "rejected", "compositeThrows"} : ReadSettled(c, o))
        /\ WF_vars(\E o \in CompressOutcomes : CompressSettled(c, o))
        /\ WF_vars(PopupClosed(c))

Next == RegionNext

\* ------------------------------------------------ main: latest-upload loop
\* a step of poll() runs to its next await; the pending fetches, body reads,
\* imports and retry timers are counted
PollPending(p) == p.timers + p.fetching + p.parsing + p.importing

\* setTimeout(poll, 50)
SetTimeoutPoll(p) == [p EXCEPT !.timers = @ + 1]

\* the response carries filename and contents that decode
ReadyLoadedAfterImport(p) ==
    [p EXCEPT !.importing = @ + 1, !.imports = @ + 1]

Ready(p) ==
    [p EXCEPT !.hasLoaded = TRUE, !.importing = @ + 1, !.imports = @ + 1]

\* the response carries filename and contents, and atob(data.contents) raises
Undecodable(p) == SetTimeoutPoll([p EXCEPT !.hasLoaded = TRUE])

\* everything outside the polling loop
pollFrame == <<regionVars, hasServer, bgClr, frame, renderer, cap, nCaptures>>

\* the server's answers: nothing uploaded yet, a file, a file whose contents
\* are not base64
Uploads == {"file", "garbled"}

FetchOutcomes == {"rejected", "notOk", "ok"}
JsonOutcomes == {"rejected", "parsed"}
ImportOutcomes == {"fulfilled", "rejected"}

\* the retry timer fires: poll()
TimerFires ==
    /\ poll.timers > 0
    /\ poll.hasLoaded \/ poll.fetches < MaxPolls
    /\ poll' = [PollCall([poll EXCEPT !.timers = @ - 1]) EXCEPT !.last = "timer"]
    /\ UNCHANGED <<upload, pollFrame>>

\* await fetch(apiUrl) settles
FetchSettled(outcome) ==
    /\ poll.fetching > 0
    /\ LET p == [poll EXCEPT !.fetching = @ - 1, !.last = outcome]
       IN  poll' = IF outcome = "ok" THEN [p EXCEPT !.parsing = @ + 1, !.body = upload]
                   ELSE SetTimeoutPoll(p)
    /\ UNCHANGED <<upload, pollFrame>>

\* await res.json() settles, to the next await or to the return
JsonSettled(outcome) ==
    /\ poll.parsing > 0
    /\ LET data == IF outcome = "parsed" THEN poll.body ELSE "rejected"
           p == [poll EXCEPT !.parsing = @ - 1,
                             !.last = CASE data = "rejected" -> "jsonFailed"
                                        [] data = "none" -> "notReady"
                                        [] data = "file" -> "ready"
                                        [] data = "garbled" -> "undecodable"]
       IN  poll' = CASE data = "file" -> Ready(p)
                     [] data = "garbled" -> Undecodable(p)
                     [] OTHER -> SetTimeoutPoll(p)
    /\ UNCHANGED <<upload, pollFrame>>

\* await events.invoke('import', ...) settles
ImportSettled(outcome) ==
    /\ poll.importing > 0
    /\ LET p == [poll EXCEPT !.importing = @ - 1,
                             !.last = IF outcome = "fulfilled" THEN "imported" ELSE "importFailed"]
       IN  poll' = IF outcome = "fulfilled" THEN p ELSE SetTimeoutPoll(p)
    /\ UNCHANGED <<upload, pollFrame>>

\* somebody uploads to the server
ServerUpload(kind) ==
    /\ upload # kind
    /\ upload' = kind
    /\ UNCHANGED <<poll, pollFrame>>

PollInit == Init /\ hasServer /\ ~onReset

PollNext ==
    \/ TimerFires
    \/ \E o \in FetchOutcomes : FetchSettled(o)
    \/ \E o \in JsonOutcomes : JsonSettled(o)
    \/ \E o \in ImportOutcomes : ImportSettled(o)
    \/ \E kind \in Uploads : ServerUpload(kind)

SpecPoll == PollInit /\ [][PollNext]_vars

\* the region controller alone, in an embedding that may install an onReset callback
ResetInit ==
    Init /\ hasServer /\ bgClr = [r |-> 2, g |-> 2, b |-> 2] /\ frame \in PixelBuffers

\* the handlers that the reset button depends on: all but the hover listeners
ResetNext ==
    \/ KeyDownControl
    \/ KeyUpControl
    \/ MouseDown
    \/ MouseMoveIdle
    \/ MouseMoveModifying
    \/ MouseUp
    \/ \E vp \in Viewports : WindowResize(vp[1], vp[2])
    \/ \E s \in SetSizeArgs : SetScreenshotSize(s[1], s[2])
    \/ ResetScreenshotArea

SpecReset == ResetInit /\ [][ResetNext]_vars

\* the region controller alone, in the set-up of main with a server: no onReset
\* callback is installed
RegionInit == ResetInit /\ ~onReset

Spec == RegionInit /\ [][Next]_vars

\* pointer positions around every threshold of the indicator's edges
ProbePoints ==
    LET r == IndicatorRect
        t == Px(EDGE_THRESHOLD)
        xs == {r.left - Px(5), r.left + t - Px(1), r.left + t,
               r.left + Half(style.width),
               r.right - t, r.right - t + Px(1), r.right + Px(5)}
        ys == {r.top - Px(5), r.top + t - Px(1), r.top + t,
               r.top + Half(style.height),
               r.bottom - t, r.bottom - t + Px(1), r.bottom + Px(5)}
    IN  xs \X ys

\* window mousemove to one of these positions, nothing being modified
ProbeMove ==
    /\ Tick
    /\ ~isModifying
    /\ \E p \in ProbePoints : WindowMouseMove(p[1], p[2])

HitTestNext ==
    \/ KeyDownControl
    \/ PointerEnter
    \/ PointerMove
    \/ ProbeMove
    \/ \E s \in SetSizeArgs : SetScreenshotSize(s[1], s[2])

HitTestInit == RegionInit

\* the hit test of updateCursor, with the pointer anywhere around the indicator
SpecHitTest == HitTestInit /\ [][HitTestNext]_vars

\* main installs no onReset callback
CaptureInit == Init /\ ~onReset

\* the capture pipeline, with a few input events interleaved
\* the constructor over several viewports and default sizes, followed by the
\* handlers that leave the geometry alone
ConstructInit ==
    /\ InitWith(ConstructViewports, ConstructSizes, BgColors, PixelBuffers)
    /\ hasServer /\ ~onReset

ConstructNext ==
    \/ KeyDownControl
    \/ KeyUpControl
    \/ PointerEnter
    \/ PointerLeave
    \/ MouseMoveIdle

SpecConstruct == ConstructInit /\ [][ConstructNext]_vars

\* the blending loop over every frame and background of its input sets: captures
\* in which no step fails, up to the call of compress
CompositeInit ==
    InitWith(InitialViewports, DefaultSizes, CompositeBgColors, CompositeFrames)
    /\ hasServer /\ ~onReset

CompositeNext ==
    \/ Trigger("none")
    \/ \E c \in Captures : ReadSettled(c, "fulfilled")

SpecComposite == CompositeInit /\ [][CompositeNext]_vars

SpecCapture == CaptureInit /\ [][CaptureNext]_vars

\* the calls of screenshot() and their continuations, without input handlers
\* in between
PipelineNext ==
    \/ KeyDownEnter
    \/ TakeScreenshotEvent
    \/ \E c \in Captures, o \in {"fulfilled", "rejected", "compositeThrows"} : ReadSettled(c, o)
    \/ \E c \in Captures, o \in CompressOutcomes : CompressSettled(c, o)
    \/ \E c \in Captures : PopupClosed(c)
    \/ RenderFrame

SpecCaptureFair == CaptureInit /\ [][PipelineNext]_vars /\ CaptureFairness

\* ------------------------------------------------------------------ claims
InViewport ==
    /\ style.left >= 0
    /\ style.top >= 0
    /\ style.left + style.width <= clientWidth
    /\ style.top + style.height <= clientHeight

AtLeastMinSize ==
    /\ screenshotWidth >= MinSize /\ style.width >= MinSize
    /\ screenshotHeight >= MinSize /\ style.height >= MinSize

\* the pointer delta of the last window mousemove, measured from the press point
DeltaX == mouseX - startX
DeltaY == mouseY - startY

\* C1: in every reachable state the region is at least MIN_SIZE wide and high and
\* lies inside the viewport.
C1_RegionInvariant == AtLeastMinSize /\ InViewport

\* C2: after every drag move the rectangle lies inside the viewport.
C2_DragInViewport == lastOp.op = "drag" => InViewport

\* C3: after every resize move, for every handle and delta, the width and the
\* height are at least MIN_SIZE.
C3_ResizeMinSize == lastOp.op = "resize" => AtLeastMinSize

\* C3 witness: a resize by the bottom-right handle whose delta asks for less than
\* MIN_SIZE in both dimensions.
C3_Witness ==
    /\ lastOp.op = "resize"
    /\ resizeMode = "BOTTOM_RIGHT"
    /\ startWidth + DeltaX < MinSize
    /\ startHeight + DeltaY < MinSize
    /\ screenshotWidth = MinSize /\ screenshotHeight = MinSize

\* C4: after every resize move, for every handle and delta, the rectangle lies
\* inside the viewport.
C4_ResizeInViewport == lastOp.op = "resize" => InViewport

\* C5: a resize move never moves the edges opposite to the grabbed handle: they
\* stay where they were at the press.
C5_OppositeEdgeFixed ==
    lastOp.op = "resize" =>
        LET right       == style.left + style.width
            bottom      == style.top + style.height
            startRight  == startLeft + startWidth
            startBottom == startTop + startHeight
        IN  /\ resizeMode \in {"RIGHT", "TOP_RIGHT", "BOTTOM_RIGHT"} => style.left = startLeft
            /\ resizeMode \in {"LEFT", "TOP_LEFT", "BOTTOM_LEFT"} => right = startRight
            /\ resizeMode \in {"BOTTOM", "BOTTOM_LEFT", "BOTTOM_RIGHT"} => style.top = startTop
            /\ resizeMode \in {"TOP", "TOP_LEFT", "TOP_RIGHT"} => bottom = startBottom

\* whether the capture c has run the step
Ran(c, step) == \E i \in 1 .. Len(cap[c].trace) : cap[c].trace[i] = step

\* the steps of the pipeline that can raise
PipelineFailures ==
    {"bgClr", "startOffscreenMode", "alloc", "copyRt", "read", "composite", "compress"}

\* whether no call of screenshot() is between its first step and its end
NoCaptureInFlight == \A c \in Captures : cap[c].pc \in {"idle", "resolved", "rejected"}

\* C6: a capture never starts its readback while the render it forced is still
\* pending.
C6_ReadAfterRender ==
    \A c \in Captures : Ran(c, "read") => ~cap[c].renderPendingAtRead

\* C7: the pixels handed to the encoder are the composited buffer of the capture,
\* not its raw RGBA readback.
C7_EncoderGetsComposite ==
    \A c \in Captures : Ran(c, "compress") => cap[c].compressArgs.pixels = cap[c].rgbData

\* C8: a capture in which a pipeline step raised has issued exactly one error
\* notification, with the message of the error, has not invoked the completion
\* callback, and has run no step twice.
C8_FailureReportedOnce ==
    \A c \in Captures :
        cap[c].failedAt \in PipelineFailures =>
            /\ cap[c].popups = << <<"'", cap[c].failedAt, "'">> >>
            /\ cap[c].completions = <<>>
            /\ \A i, j \in 1 .. Len(cap[c].trace) :
                   i # j => cap[c].trace[i] # cap[c].trace[j]

\* C8 witness: a capture whose encoding raised has run to its end, in the set-up
\* where a completion callback is installed.
C8_Witness ==
    \E c \in Captures :
        /\ hasServer
        /\ cap[c].failedAt = "compress"
        /\ cap[c].pc = "resolved"
        /\ Len(cap[c].popups) = 1

C10_RendererRestored ==
    NoCaptureInFlight =>
        \A c \in Captures :
            cap[c].pc = "resolved" =>
                /\ renderer.offscreenMode = cap[c].pre.offscreenMode
                /\ renderer.renderOverlays = cap[c].pre.renderOverlays
                /\ renderer.gizmoEnabled = cap[c].pre.gizmoEnabled

\* the calls of screenshot() suspended at the readback or at the encoding
InFlight == {c \in Captures : cap[c].pc \in {"read", "compress"}}

\* C11: at most one capture is in flight at any time: a trigger that arrives
\* while a capture is suspended starts no second pipeline run.
C11_SingleInFlight == Cardinality(InFlight) <= 1

\* C12: the dimensions a capture hands to the encoder are those of the source
\* rectangle it computed at its trigger, whatever region events ran while it was
\* suspended.
C12_RectReadOnce ==
    \A c \in Captures :
        Ran(c, "compress") =>
            /\ cap[c].compressArgs.width = cap[c].source.width
            /\ cap[c].compressArgs.height = cap[c].source.height

\* C12 witness: the only capture has just called the encoder, and the region was
\* resized or re-centred between its trigger and that call.
C12_Witness ==
    /\ nCaptures = 1
    /\ cap[1].pc = "compress"
    /\ lastOp.op = "screenshot"
    /\ SourceRect # cap[1].source
    /\ cap[1].compressArgs.width = cap[1].source.width

\* C13: whenever the modifier key is not held, the indicator is transparent to
\* the pointer and, unless a gesture is still running, no handle is selected; a
\* press starts a drag or a resize only while the modifier key is held.
C13_NormalIsInert ==
    /\ ~isCtrlPressed => pointerEvents = "none"
    /\ (~isCtrlPressed /\ ~isModifying) => resizeMode = "NONE"
    /\ lastOp.op = "mousedown" => isCtrlPressed

\* C14: the stored modify mode is the projection of the modifier key, the hover
\* flag and the drag / resize flags, in every state.
C14_ModeIsProjection == modifyMode = ModifyModeOf(isCtrlPressed, isModifying, isHovering)

\* the centred rectangle of the default size in the current viewport
CenteredDefault ==
    [left   |-> Half(clientWidth - defaultScreenshotWidth),
     top    |-> Half(clientHeight - defaultScreenshotHeight),
     width  |-> defaultScreenshotWidth,
     height |-> defaultScreenshotHeight]

\* C15: from every reachable state, two resets in succession leave the rectangle
\* and the stored default position as one reset does.
C15_ResetIdempotent == resetGeometry(resetGeometry(Geometry)) = resetGeometry(Geometry)

\* C15 witness: a reset has just run, and a further reset changes nothing.
C15_Witness ==
    /\ lastOp.op = "reset"
    /\ resetGeometry(Geometry) = Geometry

\* C16 as stated: after a reset the size is the default size, the rectangle is
\* centred in the current viewport, the stored default position is that centred
\* position, and the reset notification was fired once by that call.
C16_ResetNotifiesOnce ==
    lastOp.op = "reset" =>
        /\ screenshotWidth = defaultScreenshotWidth
        /\ screenshotHeight = defaultScreenshotHeight
        /\ style = CenteredDefault
        /\ defaultLeft = CenteredDefault.left /\ defaultTop = CenteredDefault.top
        /\ lastOp.fired = 1

\* C16 amended: as above, but the notification is fired once by the call if an
\* onReset callback is installed and not at all if none is.
C16_ResetRestoresDefaults ==
    lastOp.op = "reset" =>
        /\ screenshotWidth = defaultScreenshotWidth
        /\ screenshotHeight = defaultScreenshotHeight
        /\ style = CenteredDefault
        /\ defaultLeft = CenteredDefault.left /\ defaultTop = CenteredDefault.top
        /\ lastOp.fired = (IF onReset THEN 1 ELSE 0)
        /\ resetCalls >= lastOp.fired

\* C16 witness: a reset with a callback installed, in a viewport that is not the
\* one of the construction.
C16_Witness ==
    /\ lastOp.op = "reset"
    /\ onReset
    /\ resetCalls = 1
    /\ clientWidth # Px(800)
    /\ style = CenteredDefault

\* whether the region has the configured default size
HasDefaultSize ==
    screenshotWidth = defaultScreenshotWidth /\ screenshotHeight = defaultScreenshotHeight

\* C17: setScreenshotSize(w, h) makes the size (w, h), centres the region in the
\* viewport, stores that position as the default position if (w, h) is the
\* default size, and leaves the stored default position unchanged otherwise.
C17_SetSizeCentres ==
    [][lastOp'.op = "setSize" =>
          /\ screenshotWidth' = lastOp'.width /\ screenshotHeight' = lastOp'.height
          /\ style' = [left   |-> Half(clientWidth' - lastOp'.width),
                       top    |-> Half(clientHeight' - lastOp'.height),
                       width  |-> lastOp'.width,
                       height |-> lastOp'.height]
          /\ HasDefaultSize' => (defaultLeft' = style'.left /\ defaultTop' = style'.top)
          /\ ~HasDefaultSize' => (defaultLeft' = defaultLeft /\ defaultTop' = defaultTop)]_vars

\* C17 witness: a size other than the default was set; the region moved to its
\* centred position and the stored default position is still the other one.
C17_Witness ==
    /\ lastOp.op = "setSize"
    /\ ~HasDefaultSize
    /\ style.left = Half(clientWidth - screenshotWidth)
    /\ defaultLeft # style.left

\* C18: after setScreenshotSize the width and the height lie between MIN_SIZE and
\* the viewport's dimension.
C18_SetSizeClamps ==
    lastOp.op = "setSize" =>
        /\ MinSize <= screenshotWidth /\ screenshotWidth <= clientWidth
        /\ MinSize <= screenshotHeight /\ screenshotHeight <= clientHeight

\* C19: the window resize listener re-centres a region of the default size, and
\* leaves a region of another size with its size and with its position, clamped
\* into the new viewport.
C19_ViewportResize ==
    [][lastOp'.op = "resize-window" =>
          /\ screenshotWidth' = screenshotWidth /\ screenshotHeight' = screenshotHeight
          /\ HasDefaultSize =>
                 /\ style'.left = Half(clientWidth' - screenshotWidth)
                 /\ style'.top = Half(clientHeight' - screenshotHeight)
          /\ ~HasDefaultSize =>
                 /\ style'.left = Max(0, Min(clientWidth' - style.width, style.left))
                 /\ style'.top = Max(0, Min(clientHeight' - style.height, style.top))]_vars

\* the pointer is within the threshold of an edge of the indicator
NearLeft   == mouseX < IndicatorRect.left + Px(EDGE_THRESHOLD)
NearRight  == mouseX > IndicatorRect.right - Px(EDGE_THRESHOLD)
NearTop    == mouseY < IndicatorRect.top + Px(EDGE_THRESHOLD)
NearBottom == mouseY > IndicatorRect.bottom - Px(EDGE_THRESHOLD)

\* the nine zones as regions of the plane: a corner is near two adjacent edges,
\* an edge zone is near that edge and near no adjacent edge, the rest is the centre
InZone(z) ==
    CASE z = "TOP_LEFT"     -> NearLeft /\ NearTop
      [] z = "TOP_RIGHT"    -> NearRight /\ NearTop
      [] z = "BOTTOM_LEFT"  -> NearLeft /\ NearBottom
      [] z = "BOTTOM_RIGHT" -> NearRight /\ NearBottom
      [] z = "LEFT"         -> NearLeft /\ ~NearTop /\ ~NearBottom
      [] z = "RIGHT"        -> NearRight /\ ~NearTop /\ ~NearBottom
      [] z = "TOP"          -> NearTop /\ ~NearLeft /\ ~NearRight
      [] z = "BOTTOM"       -> NearBottom /\ ~NearLeft /\ ~NearRight
      [] z = "NONE"         -> ~NearLeft /\ ~NearRight /\ ~NearTop /\ ~NearBottom

\* C20: with the modifier held and nothing being modified, the pointer position
\* lies in exactly one of the nine zones, and that zone is the handle the hit
\* test has selected.
C20_HitTestPartition ==
    (isCtrlPressed /\ ~isModifying /\ lastOp.op \in {"keydown", "pointerenter", "pointermove"}) =>
        /\ Cardinality({z \in ResizeModes : InZone(z)}) = 1
        /\ InZone(resizeMode)

\* C20 witness: the pointer is one pixel inside the top threshold and exactly on
\* the left threshold, and the hit test has selected the top edge.
C20_Witness ==
    /\ isCtrlPressed /\ ~isModifying
    /\ lastOp.op = "keydown"
    /\ mouseX = IndicatorRect.left + Px(EDGE_THRESHOLD)
    /\ mouseY = IndicatorRect.top + Px(EDGE_THRESHOLD) - Px(1)
    /\ resizeMode = "TOP"

\* C21: isModifying becomes true at a press on the region, stays so until the
\* next pointer-up and is false otherwise; the pointer-up clears the drag and the
\* resize flag and sets the handle to NONE.
C21_ModifyingBetweenPressAndRelease ==
    [][/\ lastOp'.op = "mousedown" => isModifying'
       /\ lastOp'.op = "mouseup" =>
              (~isDragging' /\ ~isResizing' /\ ~isModifying' /\ resizeMode' = "NONE")
       /\ lastOp'.op \notin {"mousedown", "mouseup"} =>
              (isModifying' = isModifying /\ isDragging' = isDragging
                                          /\ isResizing' = isResizing)]_vars

\* C21 witness: a resize that changed the width has been ended by a pointer-up.
C21_Witness ==
    /\ lastOp.op = "mouseup"
    /\ ~isModifying
    /\ resizeMode = "NONE"
    /\ screenshotWidth # startWidth

\* the position differs from the stored default position by more than one pixel
PositionMoved ==
    \/ Abs(style.left - defaultLeft) > Px(1)
    \/ Abs(style.top - defaultTop) > Px(1)

\* C22 as stated: after the pointer-up that ends a drag or resize the reset
\* button is shown exactly when width, height, left or top differs from its
\* stored default by more than one pixel and the modifier key is held.
C22_ResetVisibleBeyondOnePixel ==
    lastOp.op = "mouseup" =>
        (resetDisplay = "flex" <=>
            /\ isCtrlPressed
            /\ \/ Abs(screenshotWidth - defaultScreenshotWidth) > Px(1)
               \/ Abs(screenshotHeight - defaultScreenshotHeight) > Px(1)
               \/ PositionMoved)

\* C22 amended: after the pointer-up that ends a drag or resize the reset button
\* is shown exactly when the modifier key is held and the width or height differs
\* at all from its default or left or top differs from the stored default
\* position by more than one pixel.
C22_ResetVisible ==
    lastOp.op = "mouseup" =>
        (resetDisplay = "flex" <=>
            /\ isCtrlPressed
            /\ \/ screenshotWidth # defaultScreenshotWidth
               \/ screenshotHeight # defaultScreenshotHeight
               \/ PositionMoved)

\* C22 witness: a drag by one pixel has ended with the modifier key held, and the
\* button stays hidden.
C22_Witness ==
    /\ lastOp.op = "mouseup"
    /\ isCtrlPressed
    /\ style.left = defaultLeft + Px(1)
    /\ screenshotWidth = defaultScreenshotWidth
    /\ screenshotHeight = defaultScreenshotHeight
    /\ resetDisplay = "none"

\* out is the byte the claim gives a channel: the background for alpha 0, the
\* source for alpha 255, otherwise the integer nearest to
\* ch * a / 255 + bg * (1 - a / 255), a half rounding up (bg2 is twice the
\* background channel scaled to 0..255)
IsCompositedChannel(out, ch, a, bg2) ==
    IF a = 0 THEN 2 * out = bg2
    ELSE IF a = 255 THEN out = ch
    ELSE LET n == 2 * ch * a + bg2 * (255 - a)
         IN  510 * out - 255 <= n /\ n < 510 * out + 255

\* the captures whose blending loop has run to its end
Composited == {c \in Captures : cap[c].pc = "compress"}

HasSourceRect == {c \in Captures : cap[c].pc # "idle" /\ cap[c].failedAt # "bgClr"}

\* C24: whatever the region's geometry when a capture is triggered, the rectangle
\* handed to the readback starts at non-negative coordinates and ends within the
\* canvas as it was at that time.
C24_SourceRectInCanvas ==
    \A c \in HasSourceRect :
        /\ cap[c].source.x >= 0
        /\ cap[c].source.y >= 0
        /\ cap[c].source.x + cap[c].source.width <= cap[c].width
        /\ cap[c].source.y + cap[c].source.height <= cap[c].height

\* C24 witness: a capture triggered with the 512 pixel region in the 400 x 300
\* viewport, where the region sticks out on all four sides.
C24_Witness ==
    \E c \in HasSourceRect :
        /\ "read" \in {cap[c].trace[i] : i \in 1 .. Len(cap[c].trace)}
        /\ cap[c].width = Px(400)
        /\ cap[c].source = [x |-> 0, y |-> 0, width |-> Px(400), height |-> Px(300)]

\* C25: after construction the region has the default size, is centred in the
\* viewport (left = (vw - w) / 2, top = (vh - h) / 2) and the stored default
\* position is that position; it stays so while only keys and pointer moves follow.
C25_ConstructedCentred ==
    /\ screenshotWidth = defaultScreenshotWidth
    /\ screenshotHeight = defaultScreenshotHeight
    /\ style.width = screenshotWidth /\ style.height = screenshotHeight
    /\ 2 * style.left = clientWidth - screenshotWidth
    /\ 2 * style.top = clientHeight - screenshotHeight
    /\ defaultLeft = style.left /\ defaultTop = style.top

\* C25 witness: an 800 x 600 viewport and a 512 x 512 default give left 144, top 44.
C25_Witness ==
    /\ lastOp.op = "constructor"
    /\ clientWidth = Px(800) /\ clientHeight = Px(600)
    /\ screenshotWidth = Px(512) /\ screenshotHeight = Px(512)
    /\ style.left = Px(144) /\ style.top = Px(44)
    /\ defaultLeft = Px(144) /\ defaultTop = Px(44)

\* C26: a drag move puts the region at left = max(0, min(vw - width, startLeft + dx))
\* and top = max(0, min(vh - height, startTop + dy)), each axis by its own delta,
\* and leaves the size as it was.
C26_DragClamped ==
    [][lastOp'.op = "drag" =>
        LET dx == mouseX' - startX
            dy == mouseY' - startY
            wantLeft == startLeft + dx
            wantTop  == startTop + dy
            maxLeft  == clientWidth - screenshotWidth
            maxTop   == clientHeight - screenshotHeight
        IN  /\ style'.left = IF wantLeft > maxLeft
                             THEN (IF maxLeft < 0 THEN 0 ELSE maxLeft)
                             ELSE (IF wantLeft < 0 THEN 0 ELSE wantLeft)
            /\ style'.top = IF wantTop > maxTop
                            THEN (IF maxTop < 0 THEN 0 ELSE maxTop)
                            ELSE (IF wantTop < 0 THEN 0 ELSE wantTop)
            /\ screenshotWidth' = screenshotWidth
            /\ screenshotHeight' = screenshotHeight
            /\ style'.width = style.width /\ style'.height = style.height]_vars

\* C26 witness: the 512 x 512 region at (144, 44) of the 800 x 600 viewport dragged
\* by (1000, 1000) stops at left 288, top 88.
C26_Witness ==
    /\ lastOp.op = "drag"
    /\ clientWidth = Px(800) /\ clientHeight = Px(600)
    /\ screenshotWidth = Px(512) /\ screenshotHeight = Px(512)
    /\ startLeft = Px(144) /\ startTop = Px(44)
    /\ mouseX - startX = Px(1000) /\ mouseY - startY = Px(1000)
    /\ style.left = Px(288) /\ style.top = Px(88)

\* the handles that move the left (right, top, bottom) edge
LeftHandles   == {"TOP_LEFT", "BOTTOM_LEFT", "LEFT"}
RightHandles  == {"TOP_RIGHT", "BOTTOM_RIGHT", "RIGHT"}
TopHandles    == {"TOP_LEFT", "TOP_RIGHT", "TOP"}
BottomHandles == {"BOTTOM_LEFT", "BOTTOM_RIGHT", "BOTTOM"}

\* v is max(MIN_SIZE, min(dim, proposed))
IsClampedSize(v, dim, proposed) ==
    IF proposed < MinSize \/ dim < MinSize THEN v = MinSize
    ELSE IF proposed > dim THEN v = dim
    ELSE v = proposed

\* C27: in a resize move every dimension the handle adjusts is, before the final
\* bounds block, max(MIN_SIZE, min(viewport dimension, start dimension +/- delta)),
\* with - for the left and top handles and + for the right and bottom ones.
C27_ResizeClamped ==
    lastOp.op = "resize" =>
        /\ resizeMode \in LeftHandles =>
               IsClampedSize(lastOp.switched.width, clientWidth, startWidth - DeltaX)
        /\ resizeMode \in RightHandles =>
               IsClampedSize(lastOp.switched.width, clientWidth, startWidth + DeltaX)
        /\ resizeMode \in TopHandles =>
               IsClampedSize(lastOp.switched.height, clientHeight, startHeight - DeltaY)
        /\ resizeMode \in BottomHandles =>
               IsClampedSize(lastOp.switched.height, clientHeight, startHeight + DeltaY)

\* C27 witness: the bottom-right handle of the 512 x 512 region at (144, 44) moved
\* by (-600, -600) gives 64 x 64 with left and top unchanged.
C27_Witness ==
    /\ lastOp.op = "resize"
    /\ resizeMode = "BOTTOM_RIGHT"
    /\ startWidth = Px(512) /\ startHeight = Px(512)
    /\ startLeft = Px(144) /\ startTop = Px(44)
    /\ DeltaX = Px(-600) /\ DeltaY = Px(-600)
    /\ lastOp.switched.width = Px(64) /\ lastOp.switched.height = Px(64)
    /\ style = [left |-> Px(144), top |-> Px(44), width |-> Px(64), height |-> Px(64)]
    /\ screenshotWidth = Px(64) /\ screenshotHeight = Px(64)

\* the captures that ended with every step having succeeded
Succeeded == {c \in Captures : cap[c].pc = "resolved" /\ cap[c].failedAt = "none"}

\* the captures that have started and have not yet seen the encoder finish
BeforeEncoded == {c \in Captures : cap[c].pc \in {"read", "compress"}}

\* the data URI of the image the encoder was given by capture c
EncodedUri(c) ==
    [mime |-> "image/png",
     png |-> [pixels |-> cap[c].data,
              width |-> cap[c].source.width, height |-> cap[c].source.height]]

\* C28 as stated: a capture whose steps all succeed calls the completion callback
\* exactly once, after the encoder has finished, with the data URI of the encoded
\* image, and shows no error popup.
C28_CompletionOnce ==
    /\ \A c \in BeforeEncoded : cap[c].completions = <<>>
    /\ \A c \in Succeeded :
         /\ cap[c].completions = <<EncodedUri(c)>>
         /\ cap[c].popups = <<>>

\* C28 amended: a capture whose steps all succeed calls the completion callback
\* exactly once if one is installed and not at all if none is, after the encoder
\* has finished, with the data URI of the encoded image, and shows no error popup.
C28_CompletionOnceIfInstalled ==
    /\ \A c \in BeforeEncoded : cap[c].completions = <<>>
    /\ \A c \in Succeeded :
         /\ cap[c].completions = IF hasServer THEN <<EncodedUri(c)>> ELSE <<>>
         /\ cap[c].popups = <<>>

\* C28 witness: with the callback installed, a capture has succeeded and handed
\* over one data URI.
C28_Witness ==
    /\ hasServer
    /\ \E c \in Succeeded : Len(cap[c].completions) = 1 /\ Len(cap[c].data) > 0

\* the call of screenshot() for capture c has been made
Triggered(c) == cap[c].pc # "idle"

\* the promise of capture c has settled
Terminated(c) == cap[c].pc \in {"resolved", "rejected"}

\* C29 as stated, in its finite form: a capture that has terminated has called the
\* completion callback or shown the error popup.
C29_TerminatedHasEmitted ==
    \A c \in Captures :
        Terminated(c) => (cap[c].completions # <<>> \/ cap[c].popups # <<>>)

\* C29 amended: when read, encoder and popup always settle, every triggered
\* capture terminates, having shown the error popup or, with no step failed,
\* having called the completion callback if one is installed.
C29_CaptureTerminates ==
    \A c \in Captures :
        Triggered(c) ~>
            /\ Terminated(c)
            /\ \/ cap[c].popups # <<>>
               \/ /\ cap[c].failedAt = "none"
                  /\ hasServer => cap[c].completions # <<>>

\* C29 witness: two captures have terminated, one with the popup and one with the
\* completion callback.
C29_Witness ==
    /\ hasServer
    /\ \E c, d \in Captures :
         /\ Terminated(c) /\ Terminated(d)
         /\ cap[c].popups # <<>> /\ cap[c].completions = <<>>
         /\ cap[d].completions # <<>> /\ cap[d].popups = <<>>

\* the pointer is at most EDGE_THRESHOLD away from the line of an edge
WithinOfLeft   == Abs(mouseX - IndicatorRect.left) <= Px(EDGE_THRESHOLD)
WithinOfRight  == Abs(mouseX - IndicatorRect.right) <= Px(EDGE_THRESHOLD)
WithinOfTop    == Abs(mouseY - IndicatorRect.top) <= Px(EDGE_THRESHOLD)
WithinOfBottom == Abs(mouseY - IndicatorRect.bottom) <= Px(EDGE_THRESHOLD)

\* C30: with the modifier held and nothing being modified, the hit test selects a
\* handle other than NONE only for a pointer within EDGE_THRESHOLD of every edge
\* the handle stands for.
C30_HandleOnlyNearEdge ==
    (isCtrlPressed /\ ~isModifying /\ lastOp.op \in {"keydown", "pointerenter", "pointermove"}) =>
        /\ resizeMode \in LeftHandles => WithinOfLeft
        /\ resizeMode \in RightHandles => WithinOfRight
        /\ resizeMode \in TopHandles => WithinOfTop
        /\ resizeMode \in BottomHandles => WithinOfBottom

\* C31: a resize move by an edge handle adjusts one dimension only: LEFT and
\* RIGHT leave top and height as they were at the press, TOP and BOTTOM leave
\* left and width as they were at the press.
C31_EdgeHandleOneDimension ==
    lastOp.op = "resize" =>
        /\ resizeMode \in {"LEFT", "RIGHT"} =>
               /\ style.top = startTop
               /\ screenshotHeight = startHeight /\ style.height = startHeight
        /\ resizeMode \in {"TOP", "BOTTOM"} =>
               /\ style.left = startLeft
               /\ screenshotWidth = startWidth /\ style.width = startWidth

\* the order of the steps of a capture; the source rectangle is computed between
\* the first two, the completion is emitted after the last
ProtocolOrder ==
    <<"bgClr", "startOffscreenMode", "forceRender", "alloc", "copyRt", "read",
      "composite", "compress">>

\* C32: the steps of a capture run in protocol order, the completion comes after
\* the encoding, and when the readback starts the renderer is in offscreen mode
\* at the canvas size, with overlays and gizmos off, the clear colour set to the
\* queried background and the render forced.
C32_ProtocolOrder ==
    \A c \in Captures :
        /\ Len(cap[c].trace) <= Len(ProtocolOrder)
        /\ cap[c].trace = SubSeq(ProtocolOrder, 1, Len(cap[c].trace))
        /\ cap[c].completions # <<>> => Ran(c, "compress")
        /\ Ran(c, "read") =>
               /\ cap[c].atRead.offscreenMode
               /\ ~cap[c].atRead.renderOverlays
               /\ ~cap[c].atRead.gizmoEnabled
               /\ cap[c].atRead.forceRender
               /\ cap[c].atRead.width = cap[c].width
               /\ cap[c].atRead.height = cap[c].height
               /\ cap[c].atRead.clearColor = cap[c].bgColor
               /\ cap[c].source.x + cap[c].source.width <= cap[c].atRead.width

\* C32 witness: a capture has run all its steps and emitted its completion, and
\* another one has stopped at the failure of startOffscreenMode.
C32_Witness ==
    \E c, d \in Captures :
        /\ cap[c].trace = ProtocolOrder /\ cap[c].completions # <<>>
        /\ cap[c].atRead.width = Px(400)
        /\ cap[d].trace = <<"bgClr", "startOffscreenMode">> /\ cap[d].failedAt = "startOffscreenMode"

\* the cursors the hit test sets when it selects a handle
ResizeCursors == {"nwse-resize", "nesw-resize", "ew-resize", "ns-resize"}

\* never dragging and resizing at once, resizing only with a handle, dragging
\* only without one
FlagsMatchHandle ==
    /\ ~(isDragging /\ isResizing)
    /\ isResizing => resizeMode # "NONE"
    /\ isDragging => resizeMode = "NONE"

\* C33: dragging and resizing exclude each other, resizing goes with a handle and
\* dragging with none, and a press starts a resize exactly when the last run of
\* the hit test selected a handle (which the cursor it set still shows), and a
\* drag otherwise.
C33_PressFollowsHitTest ==
    [][/\ FlagsMatchHandle'
       /\ (lastOp'.op = "mousedown" /\ ~isModifying) =>
              /\ isResizing' <=> cursor \in ResizeCursors
              /\ isDragging' <=> cursor \notin ResizeCursors]_vars

\* C34: between a press and the next pointer-up no handler changes the handle:
\* not pointerenter, pointermove, pointerleave, nor Control keydown or keyup.
C34_HandleFixedWhileModifying ==
    [][(isModifying /\ lastOp'.op # "mouseup") => resizeMode' = resizeMode]_vars

\* C34 witness: Control was released during a resize by the left handle, with the
\* pointer moved away from the press point, and the handle is still LEFT.
C34_Witness ==
    /\ isResizing
    /\ lastOp.op = "keyup"
    /\ ~isCtrlPressed
    /\ mouseX # startX
    /\ resizeMode = "LEFT"

\* C35: in every reachable state the reset button is displayed exactly when the
\* modifier key is held and the width or the height differs from its default or
\* left or top differs from the stored default position by more than one pixel.
C35_ResetButtonTracksState ==
    resetDisplay = "flex" <=>
        /\ isCtrlPressed
        /\ \/ screenshotWidth # defaultScreenshotWidth
           \/ screenshotHeight # defaultScreenshotHeight
           \/ PositionMoved

\* C36: releasing the modifier key does not end a drag or resize: only a
\* pointer-up clears Dragging or Resizing, and a pointer move made while the key
\* is up is still handled as a drag or resize move that follows the pointer.
C36_KeyReleaseKeepsGesture ==
    [][/\ ((isDragging /\ ~isDragging') \/ (isResizing /\ ~isResizing')) =>
              lastOp'.op = "mouseup"
       /\ (isModifying /\ ~isCtrlPressed /\ lastOp'.op \in {"mousemove", "drag", "resize"}) =>
              /\ lastOp'.op = IF isDragging THEN "drag" ELSE "resize"
              /\ isDragging =>
                     /\ style'.left = Max(0, Min(clientWidth - screenshotWidth,
                                                 startLeft + (mouseX' - startX)))
                     /\ style'.top = Max(0, Min(clientHeight - screenshotHeight,
                                                startTop + (mouseY' - startY)))
              /\ isResizing =>
                     /\ screenshotWidth' = style'.width
                     /\ lastOp'.switched = ResizeByHandle(resizeMode, mouseX' - startX,
                                                          mouseY' - startY)]_vars

\* C36 witness: a drag started with the modifier key held (the hit test had set
\* the move cursor), the key was released during it, and a later pointer move has
\* moved the region.
C36_Witness ==
    /\ isDragging
    /\ ~isCtrlPressed
    /\ cursor = "move"
    /\ lastOp.op = "drag"
    /\ style.left # startLeft

\* the rectangle of the press lies inside the viewport and has the region's size
PressRectInViewport ==
    /\ screenshotWidth = startWidth /\ screenshotHeight = startHeight
    /\ startLeft >= 0 /\ startLeft + startWidth <= clientWidth
    /\ startTop >= 0 /\ startTop + startHeight <= clientHeight

\* C37: a drag move that brings the pointer back to the press position puts the
\* region back on the rectangle of the press, wherever the earlier moves of the
\* drag had put it, provided that rectangle lies inside the viewport.
C37_DragNotAccumulated ==
    (lastOp.op = "drag" /\ mouseX = startX /\ mouseY = startY /\ PressRectInViewport) =>
        style = [left |-> startLeft, top |-> startTop,
                 width |-> startWidth, height |-> startHeight]

\* C37 witness: the region had been dragged away from its press position, and the
\* move back to the press point has restored it.
C37_Witness ==
    /\ lastOp.op = "drag"
    /\ mouseX = startX /\ mouseY = startY
    /\ PressRectInViewport
    /\ lastOp.from # <<startLeft, startTop>>
    /\ style.left = startLeft /\ style.top = startTop

\* C38: no capture issues both the completion callback and the error popup, also
\* when the completion callback itself raises.
C38_CompletionXorError ==
    \A c \in Captures : ~(cap[c].completions # <<>> /\ cap[c].popups # <<>>)


PollStopped == PollPending(poll) = 0

\* C40: the polling loop never stops before the import has been invoked: as
\* long as no import has been invoked, a fetch, a body read or a retry timer
\* is pending.
C40_PollsUntilImport == PollStopped => poll.imports >= 1

=============================================================================
